---------------------------- MODULE Spec2Model ----------------------------
(***************************************************************************)
(* The poker bot service of services/bot-python/main.py: the /decide       *)
(* handler, the Monte Carlo equity estimator, the pre-flop and post-flop   *)
(* policies, the bet sizer and the JSON decision log.                      *)
(*                                                                         *)
(* Python floats are modelled as exact rationals <<n, d>> (d = 0 stands    *)
(* for float('inf')).  The hand evaluator of treys is an oracle outside    *)
(* the repository: each call yields any score of Ranks (lower is better).  *)
(* random.shuffle and random.random are nondeterministic draws.            *)
(***************************************************************************)
EXTENDS Integers, Sequences, FiniteSets, TLC

VARIABLES
    treys,            \* TreysCard/Evaluator/Deck imported (main.py:12-17)
    pc,               \* position of the /decide handler
    req,              \* the DecideRequest being handled
    it,               \* iterations of the Monte Carlo loop done
    hero_score,       \* estimate_equity_vs_range: hero_score, in half points
    total,            \* estimate_equity_vs_range: total
    wins, ties, losses,   \* the last trial's wins / ties / losses
    equity,           \* choose_action: equity
    to_call,          \* choose_action: to_call
    pot_odds,         \* choose_action: pot_odds
    adjusted_equity,  \* choose_action: adjusted_equity
    strat_to_call,    \* preflop_strategy / postflop_strategy: to_call
    bluff_draw,       \* postflop_strategy: the value random.random() gave
    should_bluff,     \* postflop_strategy: should_bluff
    bluff_type,       \* postflop_strategy: bluff_type
    result,           \* the DecideResponse built so far
    outcome,          \* how the handler ended: "none", "returned", "raised"
    log_file,         \* logs/poker_decisions_<day>.json: hand_id -> entry
    mode,             \* random source: "live", or seeded: "record" / "replay"
    tape,             \* the draws of the seeded random source
    prior,            \* the Decision of the first run with this seed
    texture_seen,     \* choose_action: board_texture
    fold_eq,          \* preflop_strategy: fold_equity
    fold_bet,         \* calculate_fold_equity: bet_size
    lock,             \* PokerLogger.lock: 0 when free, else its holder
    callers,          \* the threads inside PokerLogger.log_decision
    last_call         \* the last call of a PokerLogger method and how it ended

vars == <<treys, pc, req, it, hero_score, total, wins, ties, losses, equity,
          to_call, pot_odds, adjusted_equity, strat_to_call, bluff_draw,
          should_bluff, bluff_type, result, outcome, log_file, mode, tape,
          prior, texture_seen, fold_eq, fold_bet, lock, callers, last_call>>

\* Iterations of the Monte Carlo loop (iters = 1000 in the code).
Iters == 2
\* Decisions the log file holds before the model stops taking logged requests.
MaxLogged == 1

\* Threads that call PokerLogger.log_decision at the same time.
Threads == 2

\* Scores the hand evaluator may return (lower is better).
Ranks == {1, 2, 3}

---------------------------------------------------------------------------
(* Optional[T]: None is <<>>, a value v is <<v>>. *)
None == <<>>
Some(v) == <<v>>
IsNone(o) == o = <<>>
Val(o) == o[1]

(* Exact rationals for Python floats. *)
RECURSIVE GCD(_, _)
GCD(a, b) == IF b = 0 THEN a ELSE GCD(b, a % b)
Abs(x) == IF x < 0 THEN -x ELSE x
Q(n, d) ==
    LET g == GCD(Abs(n), d)
    IN  IF d = 0 THEN <<1, 0>> ELSE <<n \div g, d \div g>>
QInt(i) == <<i, 1>>
QInf == <<1, 0>>
QAdd(a, b) ==
    LET g == GCD(a[2], b[2])
    IN  Q(a[1] * (b[2] \div g) + b[1] * (a[2] \div g), (a[2] \div g) * b[2])
QNeg(a) == <<-a[1], a[2]>>
QSub(a, b) == QAdd(a, QNeg(b))
QMul(a, b) ==
    LET g1 == GCD(Abs(a[1]), b[2])
        g2 == GCD(Abs(b[1]), a[2])
        h1 == IF g1 = 0 THEN 1 ELSE g1
        h2 == IF g2 = 0 THEN 1 ELSE g2
    IN  Q((a[1] \div h1) * (b[1] \div h2), (a[2] \div h2) * (b[2] \div h1))
QLt(a, b) == a[1] * b[2] < b[1] * a[2]
QGt(a, b) == QLt(b, a)
QLe(a, b) == ~QLt(b, a)
QGe(a, b) == ~QLt(a, b)
QMin(a, b) == IF QLt(b, a) THEN b ELSE a
QMax(a, b) == IF QLt(a, b) THEN b ELSE a
RECURSIVE QPow(_, _)
QPow(a, k) == IF k <= 0 THEN QInt(1) ELSE QMul(a, QPow(a, k - 1))
\* int(x) of a float: truncation toward zero
Trunc(a) ==
    IF a[1] >= 0 THEN a[1] \div a[2] ELSE -((-a[1]) \div a[2])
Max(a, b) == IF a > b THEN a ELSE b
Min(a, b) == IF a < b THEN a ELSE b

---------------------------------------------------------------------------
(* Cards and their encoding for treys. *)
RANK_MAP == {"2", "3", "4", "5", "6", "7", "8", "9", "10", "J", "Q", "K", "A"}
SUIT_MAP == {"clubs", "diamonds", "hearts", "spades"}

Card(r, s) == [rank |-> r, suit |-> s]

\* to_treys raises KeyError for a rank or suit that is no key of the maps.
to_treys_raises(card) == card.rank \notin RANK_MAP \/ card.suit \notin SUIT_MAP

\* The prints of decide index card.suit[0]: IndexError for an empty suit.
SuitInitialRaises(card) == card.suit = ""

\* some card of the request makes the prints, or the encoding, raise
PrintsRaise(r) ==
    \/ \E i \in DOMAIN r.bot.holeCards : SuitInitialRaises(r.bot.holeCards[i])
    \/ \E i \in DOMAIN r.board : SuitInitialRaises(r.board[i])
EncodingRaises(r) ==
    \/ \E i \in DOMAIN r.bot.holeCards : to_treys_raises(r.bot.holeCards[i])
    \/ \E i \in DOMAIN r.board : to_treys_raises(r.board[i])

---------------------------------------------------------------------------
(* Requests. *)
Player(folded, hero) == [hasFolded |-> folded, isHero |-> hero]

\* The hero's seat, n live opponents and one opponent who has folded.
Seats(n) ==
    <<Player(FALSE, TRUE)>> \o [i \in 1..n |-> Player(FALSE, FALSE)]
        \o <<Player(TRUE, FALSE)>>

Action(a, street) == [action |-> a, street |-> street]

GoodHole == <<Card("A", "spades"), Card("K", "spades")>>
DryFlop == <<Card("2", "clubs"), Card("7", "diamonds"), Card("Q", "hearts")>>
WetFlop == <<Card("2", "hearts"), Card("7", "hearts"), Card("9", "hearts")>>

BaseRequest ==
    [ stage |-> "Flop", bigBlind |-> 2, smallBlind |-> 1, pot |-> 10,
      highestBet |-> 0, toCall |-> None,
      bot |-> [ chips |-> 100, bet |-> 0, holeCards |-> GoodHole,
                position |-> Some("BTN"), personality |-> Some("Balanced") ],
      players |-> Seats(1),
      board |-> DryFlop,
      context |-> [ effectiveStack |-> 20, actionHistory |-> <<>>,
                    minRaise |-> 4, maxRaise |-> 100,
                    canCheck |-> TRUE, canRaise |-> TRUE ],
      hand_id |-> None ]

FoldedCalls ==
    <<Action("call", "Flop"), Action("call", "Flop"), Action("call", "Flop"),
      Action("fold", "Flop"), Action("fold", "Flop"), Action("raise", "PreFlop")>>

\* post-flop spots: opponents, board, stack depth (SPR 2, 5, 20), persona
PostflopRequests ==
    { [BaseRequest EXCEPT !.players = Seats(n), !.board = b,
                          !.context.effectiveStack = es,
                          !.bot.personality = Some(p)] :
        n \in 0..2, b \in {DryFlop, WetFlop}, es \in {20, 50, 200},
        p \in {"Balanced", "Maniac"} }
    \cup
    { [BaseRequest EXCEPT !.players = Seats(3), !.board = b] :
        b \in {DryFlop, WetFlop} }

\* post-flop spots after three calls and two folds on the street
PassiveRequests ==
    { [BaseRequest EXCEPT !.context.actionHistory = FoldedCalls,
                          !.board = b, !.context.effectiveStack = es,
                          !.bot.personality = Some("Maniac")] :
        b \in {DryFlop, WetFlop}, es \in {20, 50, 200} }

PreflopBase ==
    [BaseRequest EXCEPT !.stage = "PreFlop", !.board = <<>>, !.pot = 3,
                        !.highestBet = 2, !.bot.bet = 2,
                        !.context.effectiveStack = 200]

\* <<minRaise, maxRaise, chips>>: legal, chips below minRaise, maxRaise
\* below the big blind, maxRaise above the stack
Sizings == {<<4, 100, 100>>, <<4, 100, 3>>, <<1, 1, 100>>, <<4, 300, 100>>}

\* pre-flop, nothing to call: the big blind's option, deep stacked
OpenRequests ==
    { [PreflopBase EXCEPT !.players = Seats(n), !.toCall = tc,
                          !.bot.personality = p,
                          !.context.effectiveStack = 400,
                          !.context.minRaise = z[1], !.context.maxRaise = z[2],
                          !.bot.chips = z[3]] :
        n \in 1..2, tc \in {None, Some(0)},
        p \in {Some("Balanced"), Some("Loose-Aggressive")},
        z \in Sizings }

\* <<live opponents, effectiveStack>>: short, medium and deep stacks at a
\* big blind of 100
Depths == {<<1, 4000>>, <<1, 10000>>, <<1, 20000>>, <<2, 4000>>,
           <<2, 20000>>, <<3, 4000>>, <<3, 10000>>, <<3, 20000>>}

\* pre-flop on the button, blinds 50/100, nothing to call
ButtonOpens ==
    { [PreflopBase EXCEPT !.bigBlind = 100, !.smallBlind = 50, !.pot = 150,
                          !.highestBet = 100, !.bot.bet = 100,
                          !.bot.chips = 10000,
                          !.context.minRaise = 200,
                          !.context.maxRaise = 10000,
                          !.players = Seats(z[1]),
                          !.context.effectiveStack = z[2]] : z \in Depths }

\* pre-flop, facing a bet of 6 with 2 posted
FacingRequests ==
    { [PreflopBase EXCEPT !.players = Seats(n), !.pot = pot,
                          !.highestBet = 6, !.toCall = tc,
                          !.context.canRaise = cr,
                          !.context.minRaise = z[1], !.context.maxRaise = z[2],
                          !.bot.chips = z[3]] :
        n \in 1..2, pot \in {9, 60}, tc \in {None, Some(4)},
        cr \in BOOLEAN, z \in {<<10, 100, 100>>, <<40, 100, 100>>,
                               <<10, 300, 20>>} }

\* pre-flop, facing a bet of 6 with 2 posted, as Tight-Aggressive
TightFacingRequests ==
    { [PreflopBase EXCEPT !.pot = pot, !.highestBet = 6,
                          !.bot.personality = Some("Tight-Aggressive"),
                          !.context.canRaise = cr] :
        pot \in {9, 60}, cr \in BOOLEAN }

\* spots where the table does not let the hero raise
NoRaiseRequests ==
    { [r EXCEPT !.context.canRaise = FALSE] :
        r \in { PreflopBase,
                [PreflopBase EXCEPT !.bot.personality = Some("Maniac")],
                [BaseRequest EXCEPT !.context.effectiveStack = 50],
                [BaseRequest EXCEPT !.context.effectiveStack = 200],
                [BaseRequest EXCEPT !.context.effectiveStack = 50,
                                    !.context.actionHistory = FoldedCalls,
                                    !.bot.personality = Some("Maniac")] } }

\* requests no client should send
BadHole == <<Card("A", "spades"), Card("T", "spades")>>
NoSuitHole == <<Card("A", "spades"), Card("K", "")>>
BadBoard == <<Card("2", "clubs"), Card("7", "stars"), Card("Q", "hearts")>>
FaultyRequests ==
    { [BaseRequest EXCEPT !.bot.holeCards = BadHole],
      [BaseRequest EXCEPT !.bot.holeCards = NoSuitHole],
      [BaseRequest EXCEPT !.board = BadBoard],
      [BaseRequest EXCEPT !.bot.chips = -5],
      [BaseRequest EXCEPT !.bot.chips = -5, !.context.effectiveStack = 50],
      [PreflopBase EXCEPT !.bot.chips = -5],
      [PreflopBase EXCEPT !.bot.personality = None, !.bot.position = None],
      [PreflopBase EXCEPT !.highestBet = 6, !.toCall = Some(1)],
      [PreflopBase EXCEPT !.highestBet = 6, !.toCall = Some(0)],
      [BaseRequest EXCEPT !.highestBet = 6, !.toCall = Some(0)],
      [BaseRequest EXCEPT !.highestBet = 6, !.toCall = Some(1)],
      [BaseRequest EXCEPT !.hand_id = Some("")] }

\* requests that carry a hand_id and are logged
LoggedRequests ==
    { [r EXCEPT !.hand_id = Some("h1")] :
        r \in { BaseRequest, PreflopBase,
                [BaseRequest EXCEPT !.context.effectiveStack = 50],
                [BaseRequest EXCEPT !.bot.holeCards = BadHole] } }

\* the requests sent twice under one seed
SeededRequests ==
    { BaseRequest,
      [BaseRequest EXCEPT !.board = WetFlop, !.hand_id = Some("h1")],
      [BaseRequest EXCEPT !.board = WetFlop, !.context.effectiveStack = 50,
                          !.bot.personality = Some("Maniac")],
      PreflopBase,
      [PreflopBase EXCEPT !.highestBet = 6, !.pot = 9],
      [BaseRequest EXCEPT !.bot.holeCards = BadHole] }

Requests ==
    PostflopRequests \cup PassiveRequests \cup OpenRequests
        \cup FacingRequests \cup FaultyRequests \cup LoggedRequests
        \cup ButtonOpens \cup TightFacingRequests \cup NoRaiseRequests

---------------------------------------------------------------------------
(* Helpers of the decision engine. *)

\* active opponents: [p for p in req.players if not p.hasFolded and not p.isHero]
ActiveOpponents(r) ==
    Cardinality({i \in DOMAIN r.players :
                    ~r.players[i].hasFolded /\ ~r.players[i].isHero})

calculate_spr(r) ==
    IF r.pot > 0 THEN Q(r.context.effectiveStack, r.pot) ELSE QInf

analyze_action_patterns(r) ==
    LET history == r.context.actionHistory
        street_actions == {i \in DOMAIN history : history[i].street = r.stage}
        aggression_count ==
            Cardinality({i \in street_actions :
                            history[i].action \in {"raise", "allin"}})
        calls_count ==
            Cardinality({i \in street_actions : history[i].action = "call"})
        folds_count ==
            Cardinality({i \in street_actions : history[i].action = "fold"})
        total_decisive_actions == aggression_count + calls_count + folds_count
    IN  [ aggressive_actions |-> aggression_count,
          passive_actions |-> calls_count,
          fold_actions |-> folds_count,
          fold_rate |-> IF total_decisive_actions > 0
                        THEN Q(folds_count, total_decisive_actions)
                        ELSE QInt(0) ]

rank_map(rank) ==
    CASE rank = "A" -> 14 [] rank = "K" -> 13 [] rank = "Q" -> 12
      [] rank = "J" -> 11 [] rank = "10" -> 10 [] rank = "9" -> 9
      [] rank = "8" -> 8 [] rank = "7" -> 7 [] rank = "6" -> 6
      [] rank = "5" -> 5 [] rank = "4" -> 4 [] rank = "3" -> 3
      [] rank = "2" -> 2

RankBefore(a, b) == a < b

\* the loop of main.py:401-408 from index i on (1-based), over sorted ranks
RECURSIVE MaxConsecutiveFrom(_, _, _, _)
MaxConsecutiveFrom(rv, i, consecutive_count, max_consecutive) ==
    IF i > Len(rv) THEN max_consecutive
    ELSE IF rv[i] = rv[i - 1] + 1
         THEN MaxConsecutiveFrom(rv, i + 1, consecutive_count + 1,
                                 Max(max_consecutive, consecutive_count + 1))
         ELSE MaxConsecutiveFrom(rv, i + 1, 1, max_consecutive)

\* the labels with "wet" starting above 0.6
TextureLabelLate(wetness) ==
    IF QGt(wetness, Q(7, 10)) THEN "very_wet"
    ELSE IF QGt(wetness, Q(6, 10)) THEN "wet"
    ELSE IF QGt(wetness, Q(2, 10)) THEN "medium"
    ELSE "dry"

TextureLabel(wetness) ==
    IF QGt(wetness, Q(7, 10)) THEN "very_wet"
    ELSE IF QGt(wetness, Q(4, 10)) THEN "wet"
    ELSE IF QGt(wetness, Q(2, 10)) THEN "medium"
    ELSE "dry"

analyze_board_texture(r) ==
    IF r.stage = "PreFlop" \/ r.board = <<>>
    THEN [texture |-> "preflop", wetness |-> QInt(0),
          max_suit_count |-> 0, max_consecutive |-> 0]
    ELSE
    LET board == r.board
        suit_count(s) == Cardinality({i \in DOMAIN board : board[i].suit = s})
        max_suit_count ==
            CHOOSE m \in 1..Len(board) :
                /\ \E i \in DOMAIN board : suit_count(board[i].suit) = m
                /\ \A i \in DOMAIN board : suit_count(board[i].suit) <= m
        flush_part == IF max_suit_count = 2 THEN Q(3, 10)
                      ELSE IF max_suit_count = 3 THEN Q(6, 10)
                      ELSE QInt(0)
        rank_values == SortSeq([i \in DOMAIN board |-> rank_map(board[i].rank)],
                               RankBefore)
        max_consecutive == MaxConsecutiveFrom(rank_values, 2, 1, 1)
        straight_part == IF max_consecutive >= 3 THEN Q(4, 10)
                         ELSE IF max_consecutive = 2 THEN Q(2, 10)
                         ELSE QInt(0)
        one_card_gaps ==
            Cardinality({i \in 1..(Len(rank_values) - 1) :
                            rank_values[i + 1] - rank_values[i] = 2})
        wetness == QAdd(QAdd(flush_part, straight_part), Q(one_card_gaps, 10))
    IN  [texture |-> TextureLabel(wetness), wetness |-> wetness,
         max_suit_count |-> max_suit_count,
         max_consecutive |-> max_consecutive]

Persona(et, bf, vb, bb) ==
    [equity_threshold |-> et, bluff_frequency |-> bf,
     value_bet_size |-> vb, bluff_bet_size |-> bb]

get_personality_adjustments(personality) ==
    CASE personality = "Tight-Aggressive" ->
            Persona(Q(1, 10), Q(5, 100), Q(8, 10), Q(5, 10))
      [] personality = "Loose-Aggressive" ->
            Persona(Q(-1, 10), Q(15, 100), Q(7, 10), Q(35, 100))
      [] personality = "Maniac" ->
            Persona(Q(-2, 10), Q(25, 100), Q(6, 10), Q(3, 10))
      [] OTHER ->
            Persona(QInt(0), Q(1, 10), Q(75, 100), Q(4, 10))

\* `x or default` of an Optional[str]: None and "" give the default
OrDefault(o, default) == IF IsNone(o) \/ Val(o) = "" THEN default ELSE Val(o)

\* calculate_fold_equity without the clamp of its last line
fold_equity_unclamped(r, bet_size) ==
    LET active_players == ActiveOpponents(r)
        bet_to_pot_ratio == IF r.pot > 0 THEN Q(bet_size, r.pot) ELSE QInt(1)
        base_fold_prob == QMin(Q(8, 10), QMul(bet_to_pot_ratio, Q(1, 2)))
        opponent_count_penalty == QPow(Q(9, 10), active_players - 1)
        opponent_tendency_factor ==
            QAdd(QInt(1), QSub(analyze_action_patterns(r).fold_rate, Q(3, 10)))
    IN  IF active_players = 0 THEN QInt(1)
        ELSE QMul(QMul(base_fold_prob, opponent_count_penalty),
                  opponent_tendency_factor)

calculate_fold_equity(r, bet_size) ==
    LET active_players == ActiveOpponents(r)
        bet_to_pot_ratio == IF r.pot > 0 THEN Q(bet_size, r.pot) ELSE QInt(1)
        base_fold_prob == QMin(Q(8, 10), QMul(bet_to_pot_ratio, Q(1, 2)))
        opponent_count_penalty == QPow(Q(9, 10), active_players - 1)
        action_patterns == analyze_action_patterns(r)
        opponent_tendency_factor ==
            QAdd(QInt(1), QSub(action_patterns.fold_rate, Q(3, 10)))
        fold_equity == QMul(QMul(base_fold_prob, opponent_count_penalty),
                            opponent_tendency_factor)
    IN  IF active_players = 0 THEN QInt(1)
        ELSE QMax(Q(5, 100), QMin(Q(95, 100), fold_equity))

calculate_ev(eq, pot, call, fold_equity) ==
    LET ev_when_called ==
            QSub(QMul(eq, QInt(pot + call)),
                 QMul(QSub(QInt(1), eq), QInt(call)))
    IN  QAdd(QMul(fold_equity, QInt(pot)),
             QMul(QSub(QInt(1), fold_equity), ev_when_called))

calculate_bet_size(r, bet_type, size_percentage) ==
    LET pot == r.pot
        base_size ==
            IF bet_type = "value" THEN Trunc(QMul(QInt(pot), size_percentage))
            ELSE IF bet_type = "bluff"
                 THEN Trunc(QMul(QInt(pot), size_percentage))
            ELSE IF bet_type = "protection"
                 THEN Trunc(QMul(QInt(pot), Q(5, 10)))
            ELSE IF bet_type = "semi_bluff"
                 THEN Trunc(QMul(QInt(pot), Q(45, 100)))
            ELSE Trunc(QMul(QInt(pot), Q(6, 10)))
        min_bet == Max(r.context.minRaise, r.bigBlind)
        max_bet == Min(r.context.maxRaise, r.bot.chips)
    IN  Max(min_bet, Min(base_size, max_bet))

NoResult == [action |-> "", raiseTo |-> None, rationale |-> ""]
DecideResponse(a, r, why) == [action |-> a, raiseTo |-> r, rationale |-> why]

error_response_as_error(e) == DecideResponse("Error", None, "error: " \o e)
\* main.py:836-839: the except clause of decide
error_response(e) == DecideResponse("Fold", None, "error: " \o e)

---------------------------------------------------------------------------
(* The policies. *)

\* main.py:510
choose_action_to_call(r) ==
    IF ~IsNone(r.toCall) THEN Val(r.toCall)
    ELSE Max(0, r.highestBet - r.bot.bet)

\* `if req.toCall` in place of `if req.toCall is not None`
preflop_to_call_truthy(r) ==
    IF ~IsNone(r.toCall) /\ Val(r.toCall) # 0 THEN Val(r.toCall)
    ELSE Max(0, r.highestBet - r.bot.bet)

\* main.py:560
preflop_to_call(r) ==
    IF ~IsNone(r.toCall) THEN Val(r.toCall)
    ELSE Max(0, r.highestBet - r.bot.bet)

\* main.py:647
postflop_to_call(r) ==
    IF ~IsNone(r.toCall) THEN Val(r.toCall)
    ELSE Max(0, r.highestBet - r.bot.bet)

position_strength(position) ==
    CASE position = "UTG" -> Q(15, 100) [] position = "MP" -> Q(20, 100)
      [] position = "CO" -> Q(25, 100) [] position = "BTN" -> Q(30, 100)
      [] position = "SB" -> Q(35, 100) [] position = "BB" -> Q(40, 100)
      [] OTHER -> Q(25, 100)

\* min_equity_for_position without the stack-depth scaling
min_equity_unscaled(r, position, personality_adj) ==
    LET base == QAdd(position_strength(position),
                     personality_adj.equity_threshold)
        num_opponents == ActiveOpponents(r)
    IN  IF num_opponents > 1
        THEN QAdd(base, QMul(Q(5, 100), QInt(num_opponents - 1)))
        ELSE base

\* main.py:562-581
min_equity_for_position(r, position, personality_adj) ==
    LET base == QAdd(position_strength(position),
                     personality_adj.equity_threshold)
        scaled ==
            IF r.context.effectiveStack < 50 * r.bigBlind
            THEN QMul(base, Q(8, 10))
            ELSE IF r.context.effectiveStack > 150 * r.bigBlind
                 THEN QMul(base, Q(12, 10))
                 ELSE base
        num_opponents == ActiveOpponents(r)
    IN  IF num_opponents > 1
        THEN QAdd(scaled, QMul(Q(5, 100), QInt(num_opponents - 1)))
        ELSE scaled

preflop_strategy(r, eq, po, position, persona, personality_adj) ==
    LET tc == preflop_to_call(r)
        min_eq == min_equity_for_position(r, position, personality_adj)
        raise_to == Min(r.context.maxRaise,
                        Max(r.pot + r.highestBet, 3 * r.highestBet))
        fold_equity == calculate_fold_equity(r, raise_to - r.highestBet)
        ev_3bet == calculate_ev(eq, r.pot + raise_to, raise_to - r.bot.bet,
                                fold_equity)
        effective_equity_needed == QAdd(po, personality_adj.equity_threshold)
    IN  IF tc = 0
        THEN IF QGt(eq, QAdd(min_eq, Q(1, 10)))
             THEN DecideResponse("Raise",
                    Some(calculate_bet_size(r, "value",
                                            personality_adj.value_bet_size)),
                    "open raise")
             ELSE IF /\ QGt(eq, QSub(min_eq, Q(5, 100)))
                     /\ persona \in {"Loose-Aggressive", "Maniac"}
             THEN DecideResponse("Raise",
                    Some(calculate_bet_size(r, "bluff",
                                            personality_adj.bluff_bet_size)),
                    "aggressive open")
             ELSE DecideResponse("Call", None, "check/limp")
        ELSE IF /\ r.context.canRaise
                /\ QGt(ev_3bet, QInt(0))
                /\ QGt(eq, effective_equity_needed)
        THEN DecideResponse("Raise", Some(raise_to), "3-bet")
        ELSE IF QGt(eq, QAdd(effective_equity_needed, Q(15, 100)))
        THEN DecideResponse("Call", None, "preflop call")
        ELSE IF /\ QGt(eq, effective_equity_needed)
                /\ QLt(QInt(tc), QMul(QInt(r.pot), Q(1, 10)))
        THEN DecideResponse("Call", None, "cheap preflop call")
        ELSE DecideResponse("Fold", None, "preflop fold")

\* main.py:650-665; draw is the value of random.random(), None when the
\* call is short-circuited away
postflop_bluff(r, eq, spr, action_patterns, board_texture, personality_adj, draw) ==
    IF QLt(eq, Q(4, 10)) /\ QLt(Val(draw), personality_adj.bluff_frequency)
    THEN IF /\ action_patterns.passive_actions > 2
            /\ QGt(action_patterns.fold_rate, Q(3, 10))
         THEN IF QGt(spr, QInt(3))
              THEN [should_bluff |-> TRUE, bluff_type |-> Some("pure_bluff")]
              ELSE [should_bluff |-> FALSE, bluff_type |-> None]
         ELSE IF QGt(board_texture.wetness, Q(5, 10)) /\ QGt(eq, Q(2, 10))
              THEN [should_bluff |-> TRUE, bluff_type |-> Some("semi_bluff")]
              ELSE [should_bluff |-> FALSE, bluff_type |-> None]
    ELSE [should_bluff |-> FALSE, bluff_type |-> None]

\* main.py:667-682
postflop_equity_threshold(r, personality_adj) ==
    LET num_opponents == ActiveOpponents(r)
        base == IF num_opponents > 2 THEN Q(6, 10)
                ELSE IF num_opponents > 1 THEN Q(5, 10)
                ELSE Q(4, 10)
    IN  QAdd(base, personality_adj.equity_threshold)

\* main.py:684-727
postflop_strategy(r, eq, po, spr, action_patterns, board_texture, personality_adj, bluff) ==
    LET equity_threshold == postflop_equity_threshold(r, personality_adj)
        bluff_kind == IF IsNone(bluff.bluff_type) THEN "bluff"
                      ELSE Val(bluff.bluff_type)
        value_size == calculate_bet_size(r, "value",
                                         personality_adj.value_bet_size)
        bluff_size == calculate_bet_size(r, bluff_kind,
                                         personality_adj.bluff_bet_size)
        call_margin == QAdd(po, personality_adj.equity_threshold)
    IN  IF QLt(spr, QInt(3))
        THEN IF \/ QGt(eq, Q(4, 10))
                \/ (bluff.should_bluff /\ bluff.bluff_type = Some("semi_bluff"))
             THEN DecideResponse("AllIn", None, "low SPR commit")
             ELSE DecideResponse("Fold", None, "low SPR fold")
        ELSE IF QLt(spr, QInt(10))
        THEN IF QGt(eq, QAdd(equity_threshold, Q(1, 10)))
             THEN DecideResponse("Raise", Some(value_size),
                                 "medium SPR value bet")
             ELSE IF bluff.should_bluff
             THEN DecideResponse("Raise", Some(bluff_size),
                                 "medium SPR " \o bluff_kind)
             ELSE IF QGt(eq, call_margin)
             THEN DecideResponse("Call", None, "medium SPR call")
             ELSE DecideResponse("Fold", None, "medium SPR fold")
        ELSE IF QGt(eq, Q(7, 10))
             THEN DecideResponse("Raise", Some(value_size),
                                 "high SPR value bet")
             ELSE IF QGt(eq, equity_threshold)
             THEN IF /\ action_patterns.aggressive_actions = 0
                     /\ r.context.canCheck
                  THEN DecideResponse("Call", None, "high SPR check")
                  ELSE IF QGt(eq, call_margin)
                  THEN DecideResponse("Call", None, "high SPR call")
                  ELSE DecideResponse("Fold", None, "high SPR fold")
             ELSE IF bluff.should_bluff /\ board_texture.texture = "dry"
             THEN DecideResponse("Raise", Some(bluff_size),
                                 "high SPR bluff dry board")
             ELSE IF QGt(eq, QAdd(po, Q(1, 10)))
             THEN DecideResponse("Call", None, "high SPR pot odds call")
             ELSE DecideResponse("Fold", None, "high SPR fold")


---------------------------------------------------------------------------
(* The JSON decision log. *)

\* hand ids of truthy value: `if req.hand_id:`
Logged(r) == ~IsNone(r.hand_id) /\ Val(r.hand_id) # ""

RECURSIVE SumDecisions(_, _)
SumDecisions(f, hs) ==
    IF hs = {} THEN 0
    ELSE LET h == CHOOSE x \in hs : TRUE
         IN  Len(f[h].decisions) + SumDecisions(f, hs \ {h})
LogSize == SumDecisions(log_file, DOMAIN log_file)

\* PokerLogger.log_decision on the day's file; an entry it creates has no
\* "rounds" key (rounds = None), no "initial_state" and no "final_results"
log_decision(f, hand_id, decision) ==
    IF hand_id \in DOMAIN f
    THEN [f EXCEPT ![hand_id].decisions = Append(@, decision)]
    ELSE [h \in DOMAIN f \cup {hand_id} |->
            IF h = hand_id
            THEN [initial_state |-> None, decisions |-> <<decision>>,
                  rounds |-> None, final_results |-> None]
            ELSE f[h]]

---------------------------------------------------------------------------
(* The random source. *)
Draws(n) == [hero : Ranks, opps : [1..n -> Ranks]]
BluffDraws == {Q(3, 100), Q(8, 100), Q(1, 2)}

\* a draw taken from a source the seed does not govern
DrawnUnseeded(d, k) == TRUE

\* d is the draw the source gives at position k of its stream: any value
\* when live or recording, the taped one when the seed is replayed
Drawn(d, k) == (mode = "replay" /\ k <= Len(tape)) => d = tape[k]
\* the tape once draw d was taken at position k
Taped(d, k) == IF mode = "live" \/ k <= Len(tape) THEN tape
               ELSE Append(tape, d)

\* no PokerLogger method was called yet
NoCall == [method |-> "none", hand_id |-> "", raised |-> FALSE]

\* a thread that is not inside log_decision
IdleCaller == [at |-> "idle", hand_id |-> "", decision |-> "", all_data |-> <<>>]

---------------------------------------------------------------------------
InitIn(m) ==
    /\ treys \in BOOLEAN
    /\ pc = "idle"
    /\ req = BaseRequest
    /\ it = 0 /\ hero_score = 0 /\ total = 0
    /\ wins = 0 /\ ties = 0 /\ losses = 0
    /\ equity = QInt(0) /\ to_call = 0 /\ pot_odds = QInt(0)
    /\ adjusted_equity = QInt(0) /\ strat_to_call = 0
    /\ bluff_draw = None /\ should_bluff = FALSE /\ bluff_type = None
    /\ result = NoResult /\ outcome = "none"
    /\ log_file = <<>>
    /\ mode = m /\ tape = <<>> /\ prior = None
    /\ texture_seen = None /\ fold_eq = None /\ fold_bet = 0
    /\ lock = 0
    /\ callers = [t \in 1..Threads |-> IdleCaller]
    /\ last_call = NoCall

Init == InitIn("live")

locals == <<it, hero_score, total, wins, ties, losses, equity, to_call,
            pot_odds, adjusted_equity, strat_to_call, bluff_draw,
            should_bluff, bluff_type, texture_seen, fold_eq, fold_bet>>

\* the state of PokerLogger's lock and of the threads that call it
logger == <<lock, callers, last_call>>

\* a request arrives at POST /decide
Request ==
    /\ pc = "idle"
    /\ \E r \in (IF mode = "live" THEN Requests ELSE SeededRequests) :
        /\ Logged(r) => LogSize < MaxLogged
        /\ req' = r
    /\ pc' = "entry"
    /\ tape' = <<>> /\ prior' = None
    /\ UNCHANGED <<treys, locals, result, outcome, log_file, mode, logger>>

\* main.py:776-788: the prints before the try block
DecidePrints ==
    /\ pc = "entry"
    /\ IF PrintsRaise(req)
       THEN pc' = "done" /\ outcome' = "raised"
       ELSE pc' = "gate" /\ outcome' = outcome
    /\ UNCHANGED <<treys, req, locals, result, log_file, mode, tape, prior,
                   logger>>

\* main.py:240-241
SimStart == it' = 0 /\ hero_score' = 0 /\ total' = 0

\* main.py:790-793, 504-508, 233-241: the treys gate, then choose_action
\* enters estimate_equity_vs_range and encodes the cards
DecideGate ==
    /\ pc = "gate"
    /\ IF ~treys
       THEN /\ result' = DecideResponse("Fold", None, "treys not installed")
            /\ pc' = "done" /\ outcome' = "returned"
            /\ UNCHANGED <<it, hero_score, total>>
       ELSE IF EncodingRaises(req)
       THEN /\ result' = error_response("KeyError")
            /\ pc' = "done" /\ outcome' = "returned"
            /\ UNCHANGED <<it, hero_score, total>>
       ELSE /\ SimStart
            /\ pc' = "sim"
            /\ UNCHANGED <<result, outcome>>
    /\ UNCHANGED <<treys, req, wins, ties, losses, equity, to_call, pot_odds,
                   adjusted_equity, strat_to_call, bluff_draw, should_bluff,
                   bluff_type, log_file, mode, tape, prior, texture_seen,
                   fold_eq, fold_bet, logger>>

\* main.py:243-274: one iteration of the Monte Carlo loop
Trial ==
    /\ pc = "sim" /\ it < Iters
    /\ \E d \in Draws(ActiveOpponents(req)) :
        /\ Drawn(d, it + 1)
        /\ LET n == ActiveOpponents(req)
               w == Cardinality({o \in 1..n : d.hero < d.opps[o]})
               t == Cardinality({o \in 1..n : d.hero = d.opps[o]})
           IN  /\ wins' = w /\ ties' = t /\ losses' = n - w - t
               /\ hero_score' = hero_score + 2 * w + t
               /\ total' = total + n
        /\ tape' = Taped(d, it + 1)
    /\ it' = it + 1
    /\ UNCHANGED <<treys, pc, req, equity, to_call, pot_odds, adjusted_equity,
                   strat_to_call, bluff_draw, should_bluff, bluff_type,
                   result, outcome, log_file, mode, prior, texture_seen,
                   fold_eq, fold_bet, logger>>

\* the pairwise score divided by the iterations instead of the pairings
equity_per_iteration(score, tot) ==
    IF tot > 0 THEN Q(score, 2 * Iters) ELSE Q(1, 2)

\* main.py:276
estimate_equity_result(score, tot) ==
    IF tot > 0 THEN Q(score, 2 * tot) ELSE Q(1, 2)

\* the penalty counted per opponent, the first one included
adjust_equity_per_opponent(r, eq) ==
    LET num_opponents == ActiveOpponents(r)
        multiway_penalty == IF num_opponents > 1
                            THEN QMul(Q(5, 100), QInt(num_opponents))
                            ELSE QInt(0)
        adjusted == QSub(eq, multiway_penalty)
    IN  IF /\ analyze_board_texture(r).texture \in {"wet", "very_wet"}
           /\ QLt(adjusted, Q(1, 2))
        THEN QMul(adjusted, Q(9, 10))
        ELSE adjusted

\* main.py:525-535
adjust_equity(r, eq) ==
    LET num_opponents == ActiveOpponents(r)
        multiway_penalty == IF num_opponents > 1
                            THEN QMul(Q(5, 100), QInt(num_opponents - 1))
                            ELSE QInt(0)
        adjusted == QSub(eq, multiway_penalty)
    IN  IF /\ analyze_board_texture(r).texture \in {"wet", "very_wet"}
           /\ QLt(adjusted, Q(1, 2))
        THEN QMul(adjusted, Q(9, 10))
        ELSE adjusted

\* the call as a share of the pot before the call
call_to_pot(r, tc) ==
    IF r.pot > 0 THEN Q(tc, r.pot) ELSE QInt(0)

\* main.py:511
pot_odds_of(r, tc) ==
    IF r.pot + tc > 0 THEN Q(tc, r.pot + tc) ELSE QInt(0)

\* main.py:276, 504-536: the estimator returns, choose_action prepares
EquityReturn ==
    /\ pc = "sim" /\ it = Iters
    /\ equity' = estimate_equity_result(hero_score, total)
    /\ to_call' = choose_action_to_call(req)
    /\ pot_odds' = pot_odds_of(req, to_call')
    /\ texture_seen' = Some(analyze_board_texture(req))
    /\ adjusted_equity' = adjust_equity(req, equity')
    /\ it' = 0 /\ hero_score' = 0 /\ total' = 0
    /\ wins' = 0 /\ ties' = 0 /\ losses' = 0
    /\ pc' = "policy"
    /\ UNCHANGED <<treys, req, strat_to_call, bluff_draw, should_bluff,
                   bluff_type, result, outcome, log_file, mode, tape, prior,
                   fold_eq, fold_bet, logger>>

\* where the handler goes once choose_action has returned (main.py:799)
AfterChoose == IF Logged(req) THEN "log" ELSE "done"

\* main.py:598: the size of the 3-bet
three_bet_to(r) ==
    Min(r.context.maxRaise, Max(r.pot + r.highestBet, 3 * r.highestBet))

\* main.py:553-554, 558-613
Preflop ==
    /\ pc = "policy" /\ req.stage = "PreFlop"
    /\ LET persona == OrDefault(req.bot.personality, "Balanced")
           position == OrDefault(req.bot.position, "BB")
       IN  result' = preflop_strategy(req, adjusted_equity, pot_odds, position,
                        persona, get_personality_adjustments(persona))
    /\ strat_to_call' = preflop_to_call(req)
    /\ IF preflop_to_call(req) # 0 /\ req.context.canRaise
       THEN /\ fold_bet' = three_bet_to(req) - req.highestBet
            /\ fold_eq' = Some(calculate_fold_equity(req, fold_bet'))
       ELSE UNCHANGED <<fold_bet, fold_eq>>
    /\ pc' = AfterChoose
    /\ outcome' = IF Logged(req) THEN outcome ELSE "returned"
    /\ UNCHANGED <<treys, req, it, hero_score, total, wins, ties, losses,
                   equity, to_call, pot_odds, adjusted_equity, bluff_draw,
                   should_bluff, bluff_type, log_file, mode, tape, prior,
                   texture_seen, logger>>

\* main.py:555-556, 645-727
Postflop ==
    /\ pc = "policy" /\ req.stage # "PreFlop"
    /\ \E d \in BluffDraws :
        /\ Drawn(d, Iters + 1)
        /\ LET persona == OrDefault(req.bot.personality, "Balanced")
               adj == get_personality_adjustments(persona)
               drawn == QLt(adjusted_equity, Q(4, 10))
               draw == IF drawn THEN Some(d) ELSE None
               bluff == postflop_bluff(req, adjusted_equity,
                            calculate_spr(req), analyze_action_patterns(req),
                            analyze_board_texture(req), adj, draw)
           IN  /\ bluff_draw' = draw
               /\ should_bluff' = bluff.should_bluff
               /\ bluff_type' = bluff.bluff_type
               /\ tape' = IF drawn THEN Taped(d, Iters + 1) ELSE tape
               /\ result' = postflop_strategy(req, adjusted_equity, pot_odds,
                                calculate_spr(req),
                                analyze_action_patterns(req),
                                analyze_board_texture(req), adj, bluff)
    /\ strat_to_call' = postflop_to_call(req)
    /\ pc' = AfterChoose
    /\ outcome' = IF Logged(req) THEN outcome ELSE "returned"
    /\ UNCHANGED <<treys, req, it, hero_score, total, wins, ties, losses,
                   equity, to_call, pot_odds, adjusted_equity, log_file, mode,
                   prior, texture_seen, fold_eq, fold_bet, logger>>

\* main.py:799-839: poker_logger.log_decision, which may raise (the file
\* cannot be opened or written); the except clause then builds a Fold
LogDecision ==
    /\ pc = "log"
    /\ \E written \in BOOLEAN :
        IF written
        THEN /\ log_file' = log_decision(log_file, Val(req.hand_id),
                                         result.action)
             /\ result' = result
        ELSE /\ log_file' = log_file
             /\ result' = error_response("OSError")
    /\ pc' = "done" /\ outcome' = "returned"
    /\ UNCHANGED <<treys, req, locals, mode, tape, prior, logger>>

\* the response leaves; the handler's locals are gone
Respond ==
    /\ pc = "done"
    /\ pc' = "idle"
    /\ req' = BaseRequest
    /\ it' = 0 /\ hero_score' = 0 /\ total' = 0
    /\ wins' = 0 /\ ties' = 0 /\ losses' = 0
    /\ equity' = QInt(0) /\ to_call' = 0 /\ pot_odds' = QInt(0)
    /\ adjusted_equity' = QInt(0) /\ strat_to_call' = 0
    /\ bluff_draw' = None /\ should_bluff' = FALSE /\ bluff_type' = None
    /\ result' = NoResult /\ outcome' = "none"
    /\ texture_seen' = None /\ fold_eq' = None /\ fold_bet' = 0
    /\ tape' = <<>> /\ prior' = None
    /\ mode' = IF mode = "live" THEN "live" ELSE "record"
    /\ UNCHANGED <<treys, log_file, logger>>

\* the same request is sent again, the random source seeded as before
Replay ==
    /\ pc = "done" /\ mode = "record" /\ outcome = "returned"
    /\ result.rationale # "error: OSError"
    /\ pc' = "entry"
    /\ mode' = "replay"
    /\ prior' = Some(result)
    /\ result' = NoResult /\ outcome' = "none"
    /\ UNCHANGED <<treys, req, locals, log_file, tape, logger>>

Next ==
    \/ Request
    \/ DecidePrints
    \/ DecideGate
    \/ Trial
    \/ EquityReturn
    \/ Preflop
    \/ Postflop
    \/ LogDecision
    \/ Respond

Spec == Init /\ [][Next]_vars

\* the service with a seeded random source, each request sent twice
NextSeeded == Next \/ Replay
SpecSeeded == InitIn("record") /\ [][NextSeeded]_vars
---------------------------------------------------------------------------
(* The helpers called on their own: analyze_board_texture and
   calculate_fold_equity applied to inputs drawn from bounded sets. *)

TextureRanks == {"5", "6", "7", "9", "K"}
TextureSuits == {"hearts", "spades"}
TextureCards == {Card(r, s) : r \in TextureRanks, s \in TextureSuits}
BoardSizes == {3, 4, 5}

\* flops, turns and rivers of distinct cards, in any order
Boards ==
    { b \in UNION {[1..k -> TextureCards] : k \in BoardSizes} :
        \A i, j \in DOMAIN b : i # j => b[i] # b[j] }

StageOf(b) == IF Len(b) = 3 THEN "Flop" ELSE IF Len(b) = 4 THEN "Turn"
              ELSE "River"

\* analyze_board_texture(req) is called on a board
AnalyzeBoard ==
    /\ pc = "idle"
    /\ \E b \in Boards :
        req' = [BaseRequest EXCEPT !.board = b, !.stage = StageOf(b)]
    /\ texture_seen' = Some(analyze_board_texture(req'))
    /\ pc' = "texture"
    /\ UNCHANGED <<treys, it, hero_score, total, wins, ties, losses, equity,
                   to_call, pot_odds, adjusted_equity, strat_to_call,
                   bluff_draw, should_bluff, bluff_type, result, outcome,
                   log_file, mode, tape, prior, fold_eq, fold_bet, logger>>

OnlyFolds == <<Action("fold", "Flop"), Action("fold", "Flop")>>
OnlyCalls == <<Action("call", "Flop"), Action("raise", "Flop")>>
Histories == {<<>>, FoldedCalls, OnlyFolds, OnlyCalls}
Pots == {0, 1, 10}
BetSizes == {-5, 0, 1, 4, 10, 100}

\* the game states calculate_fold_equity is called on
FoldRequests ==
    { [BaseRequest EXCEPT !.pot = p, !.players = Seats(n),
                          !.context.actionHistory = h] :
        p \in Pots, n \in 0..3, h \in Histories }

\* calculate_fold_equity(req, bet_size) is called
FoldEquity ==
    /\ pc = "idle"
    /\ \E r \in FoldRequests, b \in BetSizes :
        /\ req' = r
        /\ fold_bet' = b
        /\ fold_eq' = Some(calculate_fold_equity(r, b))
    /\ pc' = "fold"
    /\ UNCHANGED <<treys, it, hero_score, total, wins, ties, losses, equity,
                   to_call, pot_odds, adjusted_equity, strat_to_call,
                   bluff_draw, should_bluff, bluff_type, result, outcome,
                   log_file, mode, tape, prior, texture_seen, logger>>

\* the helper has returned
HelperReturn ==
    /\ pc \in {"texture", "fold"}
    /\ pc' = "idle"
    /\ req' = BaseRequest
    /\ texture_seen' = None /\ fold_eq' = None /\ fold_bet' = 0
    /\ UNCHANGED <<treys, it, hero_score, total, wins, ties, losses, equity,
                   to_call, pot_odds, adjusted_equity, strat_to_call,
                   bluff_draw, should_bluff, bluff_type, result, outcome,
                   log_file, mode, tape, prior, logger>>

NextHelpers == AnalyzeBoard \/ FoldEquity \/ HelperReturn
SpecHelpers == Init /\ [][NextHelpers]_vars

---------------------------------------------------------------------------
(* PokerLogger.log_decision called from several threads at once: each call
   takes self.lock, reads the day's file, appends and writes it back. *)

CallerHands == {"h1", "h2"}

\* the decision_data of thread t's call
DecisionOf(t) == "d" \o ToString(t)

\* a lock that every thread may enter
LockIgnored(l) == TRUE
\* main.py:165: `with self.lock` can be entered
LockFree(l) == l = 0

\* the tuple of the variables the logger's threads leave alone
handler == <<treys, pc, req, locals, result, outcome, mode, tape, prior>>

\* main.py:163: thread t calls log_decision(hand_id, decision_data)
LogCall(t) ==
    /\ callers[t].at = "idle"
    /\ \E h \in CallerHands :
        callers' = [callers EXCEPT ![t] =
                       [at |-> "lock", hand_id |-> h,
                        decision |-> DecisionOf(t), all_data |-> <<>>]]
    /\ UNCHANGED <<handler, log_file, lock, last_call>>

\* main.py:165: with self.lock
LogAcquire(t) ==
    /\ callers[t].at = "lock"
    /\ LockFree(lock)
    /\ lock' = t
    /\ callers' = [callers EXCEPT ![t].at = "read"]
    /\ UNCHANGED <<handler, log_file, last_call>>

\* main.py:166-173: all_data = json.load(f)
LogRead(t) ==
    /\ callers[t].at = "read"
    /\ callers' = [callers EXCEPT ![t].at = "write", ![t].all_data = log_file]
    /\ UNCHANGED <<handler, log_file, lock, last_call>>

\* main.py:175-192: the decision is appended and the file written back
LogWrite(t) ==
    /\ callers[t].at = "write"
    /\ log_file' = log_decision(callers[t].all_data, callers[t].hand_id,
                                callers[t].decision)
    /\ callers' = [callers EXCEPT ![t].at = "unlock", ![t].all_data = <<>>]
    /\ UNCHANGED <<handler, lock, last_call>>

\* the with block is left and the lock released
LogRelease(t) ==
    /\ callers[t].at = "unlock"
    /\ lock' = 0
    /\ callers' = [callers EXCEPT ![t].at = "done"]
    /\ UNCHANGED <<handler, log_file, last_call>>

NextLogger ==
    \E t \in 1..Threads :
        \/ LogCall(t)
        \/ LogAcquire(t)
        \/ LogRead(t)
        \/ LogWrite(t)
        \/ LogRelease(t)
SpecLogger == Init /\ [][NextLogger]_vars

---------------------------------------------------------------------------
(* The four methods of PokerLogger called one after another on the day's
   file, as POST /round_start, /round_end, /hand_complete and the logging
   of /decide call them.  Each runs whole under self.lock. *)

\* Records the model lets a hand's decisions list or rounds list hold.
MaxRecords == 2

\* the decision_data, initial_state and final_results the callers pass
DecisionData == {"Fold", "Call"}
InitialStates == {"dealt"}
FinalResults == {"won"}

\* main.py:126-136: the hand's entry is assigned anew, whether or not the
\* hand had one
log_round_start(f, hand_id, initial_state) ==
    [h \in DOMAIN f \cup {hand_id} |->
        IF h = hand_id
        THEN [initial_state |-> Some(initial_state), decisions |-> <<>>,
              rounds |-> Some(<<>>), final_results |-> None]
        ELSE f[h]]

\* main.py:158: all_data[day][hand_id]["rounds"] raises KeyError when the
\* entry has no "rounds" key
RoundsKeyError(f, hand_id) == hand_id \in DOMAIN f /\ IsNone(f[hand_id].rounds)

\* main.py:153-161: a round record is appended to a hand that has an entry;
\* nothing is written for a hand that has none
log_round_end(f, hand_id, final_results) ==
    IF hand_id \in DOMAIN f
    THEN [f EXCEPT ![hand_id].rounds = Some(Append(Val(@), final_results))]
    ELSE f

\* main.py:205-210: the final results are set on a hand that has an entry
log_hand_complete(f, hand_id, final_data) ==
    IF hand_id \in DOMAIN f
    THEN [f EXCEPT ![hand_id].final_results = Some(final_data)]
    ELSE f

\* the call of method m for hand h, which raised or returned
Called(m, h, r) == [method |-> m, hand_id |-> h, raised |-> r]

\* main.py:841-845: POST /round_start
CallLogRoundStart ==
    /\ LockFree(lock)
    /\ \E h \in CallerHands, s \in InitialStates :
        /\ log_file' = log_round_start(log_file, h, s)
        /\ last_call' = Called("log_round_start", h, FALSE)
    /\ UNCHANGED <<handler, lock, callers>>

\* main.py:847-851: POST /round_end; the endpoint has no except clause, so a
\* KeyError of log_round_end leaves it (the with block releases the lock)
CallLogRoundEnd ==
    /\ LockFree(lock)
    /\ \E h \in CallerHands, r \in FinalResults :
        /\ (h \in DOMAIN log_file /\ ~IsNone(log_file[h].rounds))
              => Len(Val(log_file[h].rounds)) < MaxRecords
        /\ IF RoundsKeyError(log_file, h)
           THEN /\ log_file' = log_file
                /\ last_call' = Called("log_round_end", h, TRUE)
           ELSE /\ log_file' = log_round_end(log_file, h, r)
                /\ last_call' = Called("log_round_end", h, FALSE)
    /\ UNCHANGED <<handler, lock, callers>>

\* main.py:833: log_decision as /decide calls it
CallLogDecision ==
    /\ LockFree(lock)
    /\ \E h \in CallerHands, d \in DecisionData :
        /\ h \in DOMAIN log_file => Len(log_file[h].decisions) < MaxRecords
        /\ log_file' = log_decision(log_file, h, d)
        /\ last_call' = Called("log_decision", h, FALSE)
    /\ UNCHANGED <<handler, lock, callers>>

\* main.py:853-857: POST /hand_complete
CallLogHandComplete ==
    /\ LockFree(lock)
    /\ \E h \in CallerHands, r \in FinalResults :
        /\ log_file' = log_hand_complete(log_file, h, r)
        /\ last_call' = Called("log_hand_complete", h, FALSE)
    /\ UNCHANGED <<handler, lock, callers>>

NextJournal ==
    \/ CallLogRoundStart
    \/ CallLogRoundEnd
    \/ CallLogDecision
    \/ CallLogHandComplete
SpecJournal == Init /\ [][NextJournal]_vars

---------------------------------------------------------------------------
(* Properties. *)

ActionKinds == {"Fold", "Call", "Raise", "AllIn"}

\* preflop_strategy or postflop_strategy has returned for the request
StrategyRan ==
    \/ pc = "log"
    \/ /\ pc = "done" /\ outcome = "returned"
       /\ result.rationale \notin {"treys not installed", "error: KeyError"}

\* the Decision in result is the one choose_action returned
Chosen == StrategyRan /\ result.rationale # "error: OSError"

\* a request whose chips and bets are not negative and which admits a raise
\* within the legal bounds
RaiseAdmitted(r) ==
    /\ r.bot.chips >= 0 /\ r.bot.bet >= 0 /\ r.pot >= 0
    /\ r.context.minRaise <= Min(r.context.maxRaise, r.bot.chips + r.bot.bet)

\* C1: whenever the decision is Raise, raiseTo lies between minRaise and
\* min(maxRaise, bot.chips + bot.bet).  Stated for the requests that admit
\* such a raise: the code breaks the claim even there.
C1_RaiseWithinLegalBounds ==
    (Chosen /\ result.action = "Raise" /\ RaiseAdmitted(req)) =>
        /\ req.context.minRaise <= Val(result.raiseTo)
        /\ Val(result.raiseTo) <=
              Min(req.context.maxRaise, req.bot.chips + req.bot.bet)

\* C2: the /decide handler never lets an exception out: it always ends by
\* returning a Decision.
C2_DecideNeverRaises == pc = "done" => outcome = "returned"

\* C3: once choose_action has produced its decision for a logged request,
\* the logging step leaves action and raiseTo as they are.
C3_LogFailureKeepsDecision ==
    [][pc = "log" =>
          /\ result'.action = result.action
          /\ result'.raiseTo = result.raiseTo]_vars

\* a GameState with negative chips or a toCall that contradicts the bets
Malformed(r) ==
    \/ r.bot.chips < 0
    \/ /\ ~IsNone(r.toCall)
       /\ Val(r.toCall) # Max(0, r.highestBet - r.bot.bet)

\* C4: a malformed GameState never reaches the simulation or a policy, and
\* is answered with Fold and an error rationale.
C4_MalformedRejected ==
    Malformed(req) =>
        /\ pc \notin {"sim", "policy", "log"}
        /\ (pc = "done" /\ outcome = "returned") =>
              /\ result.action = "Fold"
              /\ result.rationale \in {"error: KeyError", "error: OSError",
                                       "treys not installed"}

\* C5: with no live opponent the estimator returns exactly 1.
C5_NoOpponentsEquityOne ==
    (pc = "policy" /\ ActiveOpponents(req) = 0) => equity = QInt(1)

\* the field-equity credit of one trial
FieldCredit(w, t, l) ==
    IF l > 0 THEN QInt(0) ELSE IF t > 0 THEN Q(1, t + 1) ELSE QInt(1)

\* C6: each trial adds the field-equity credit to the hero's share: 1 when
\* strictly best, 1/(k+1) when tied for best with k opponents, 0 otherwise.
C6_TrialCreditIsFieldCredit ==
    [][(pc = "sim" /\ it' = it + 1 /\ total' > total) =>
          Q(hero_score' - hero_score, 2 * (total' - total)) =
              FieldCredit(wins', ties', losses')]_vars

\* the toCall the spec prescribes for a request
PrescribedToCall(r) ==
    IF r.toCall = None THEN Max(0, r.highestBet - r.bot.bet) ELSE r.toCall[1]

\* C7: choose_action and the strategy both work with the supplied toCall
\* (0 included), or with max(0, highestBet - bot.bet) when none is supplied.
C7_ToCallVerbatim ==
    /\ (pc = "policy" \/ StrategyRan) => to_call = PrescribedToCall(req)
    /\ StrategyRan => strat_to_call = PrescribedToCall(req)

\* C7 witness: a supplied toCall of 0 that differs from the computed one was
\* used by the strategy
C7_Witness ==
    /\ StrategyRan
    /\ req.toCall = Some(0)
    /\ req.highestBet - req.bot.bet > 0
    /\ strat_to_call = 0

C9_ActionKinds ==
    (pc = "log" \/ outcome = "returned") => result.action \in ActionKinds

\* C9 witness: the error path of decide returned a Decision
C9_Witness ==
    /\ pc = "done" /\ outcome = "returned"
    /\ result.rationale = "error: OSError"

\* post-flop with SPR < 3, decided by postflop_strategy
LowSprDecided ==
    /\ Chosen
    /\ req.stage # "PreFlop"
    /\ req.pot > 0
    /\ req.context.effectiveStack < 3 * req.pot

PenalisedEquity ==
    LET n == ActiveOpponents(req)
        multiway == IF n > 1 THEN QSub(equity, Q(5 * (n - 1), 100))
                    ELSE equity
        wet == QGt(analyze_board_texture(req).wetness, Q(4, 10))
    IN  IF wet /\ QLt(multiway, Q(1, 2)) THEN QMul(multiway, Q(9, 10))
        ELSE multiway

\* a semi-bluff is eligible on the penalised equity
SemiBluffEligible ==
    /\ QLt(PenalisedEquity, Q(4, 10))
    /\ ~IsNone(bluff_draw)
    /\ QLt(Val(bluff_draw),
           get_personality_adjustments(
               OrDefault(req.bot.personality, "Balanced")).bluff_frequency)
    /\ ~ /\ analyze_action_patterns(req).passive_actions > 2
         /\ QGt(analyze_action_patterns(req).fold_rate, Q(3, 10))
    /\ QGt(analyze_board_texture(req).wetness, Q(5, 10))
    /\ QGt(PenalisedEquity, Q(2, 10))

RequiredEquity(r) ==
    LET adj == get_personality_adjustments(
                   OrDefault(r.bot.personality, "Balanced"))
        base == QAdd(position_strength(OrDefault(r.bot.position, "BB")),
                     adj.equity_threshold)
        depth == IF r.context.effectiveStack < 50 * r.bigBlind THEN Q(8, 10)
                 ELSE IF r.context.effectiveStack > 150 * r.bigBlind
                      THEN Q(12, 10)
                      ELSE QInt(1)
    IN  QAdd(QMul(base, depth),
             Q(5 * Max(0, ActiveOpponents(r) - 1), 100))

\* pre-flop with nothing to call, decided by preflop_strategy
OpenSpot == Chosen /\ req.stage = "PreFlop" /\ strat_to_call = 0

\* C11: on the button, Balanced, big blind 100, nothing to call: estimator
\* equity above requiredEquity + 0.1 gives Raise, whatever the number of
\* live opponents.
C11_OpenRaiseOnEstimatorEquity ==
    (/\ OpenSpot
     /\ req.bot.position = Some("BTN")
     /\ req.bot.personality = Some("Balanced")
     /\ req.bigBlind = 100
     /\ QGt(equity, QAdd(RequiredEquity(req), Q(1, 10))))
        => result.action = "Raise"

\* C11 amended: pre-flop with nothing to call, the decision is Raise
\* whenever the estimator's equity less 0.05 per live opponent beyond the
\* first exceeds requiredEquity + 0.1.
C11_OpenRaiseOnAdjustedEquity ==
    (OpenSpot /\ QGt(PenalisedEquity, QAdd(RequiredEquity(req), Q(1, 10))))
        => result.action = "Raise"

\* C11 witness: an open raise against three live opponents at big blind 100
C11_Witness ==
    /\ OpenSpot
    /\ req.bigBlind = 100
    /\ ActiveOpponents(req) = 3
    /\ QGt(PenalisedEquity, QAdd(RequiredEquity(req), Q(1, 10)))
    /\ result.action = "Raise"

\* C12: calculate_fold_equity returns a value in [0.05, 0.95] when at least
\* one opponent is live, and exactly 1 when none is, for every bet size,
\* pot (0 included) and action history.
C12_FoldEquityRange ==
    ~IsNone(fold_eq) =>
        IF ActiveOpponents(req) = 0 THEN Val(fold_eq) = QInt(1)
        ELSE /\ QGe(Val(fold_eq), Q(5, 100))
             /\ QLe(Val(fold_eq), Q(95, 100))

\* C12 witness: a bet of many pots into opponents who have been folding,
\* held at the upper clamp
C12_Witness ==
    /\ pc = "fold"
    /\ fold_bet > req.pot
    /\ ActiveOpponents(req) >= 1
    /\ QGt(fold_equity_unclamped(req, fold_bet), Q(95, 100))
    /\ fold_eq = Some(Q(95, 100))

\* thread t's decision stands exactly once under its hand in the file
LoggedOnce(t) ==
    /\ callers[t].hand_id \in DOMAIN log_file
    /\ LET ds == log_file[callers[t].hand_id].decisions
       IN  Cardinality({i \in DOMAIN ds : ds[i] = callers[t].decision}) = 1

\* C13: concurrent log_decision calls lose no update: every call that has
\* written keeps its decision in the file exactly once under its hand,
\* whatever the other calls do.
C13_NoLostUpdate ==
    \A t \in 1..Threads :
        callers[t].at \in {"unlock", "done"} => LoggedOnce(t)

\* C13 witness: all threads have logged under the same hand, the second
\* having waited for the lock
C13_Witness ==
    /\ \A t \in 1..Threads :
         callers[t].at = "done" /\ callers[t].hand_id = "h1"
    /\ Len(log_file["h1"].decisions) = Threads

\* C14: the value estimate_equity_vs_range returns lies in [0, 1], whatever
\* the request and whatever the hand ranker answers.
C14_EquityInUnitInterval ==
    pc \in {"policy", "log", "done"} =>
        /\ QGe(equity, QInt(0))
        /\ QLe(equity, QInt(1))

\* C14 witness: against two or more live opponents the hero won every
\* pairing and the estimator returned 1
C14_Witness ==
    /\ pc = "policy"
    /\ ActiveOpponents(req) >= 2
    /\ equity = QInt(1)

\* cards of suit s on board b
SuitCount(b, s) == Cardinality({i \in DOMAIN b : b[i].suit = s})

\* some suit appears exactly three times
SuitThrice(b) == \E i \in DOMAIN b : SuitCount(b, b[i].suit) = 3

\* C15: a post-flop board of 3, 4 or 5 cards with some suit on it exactly
\* three times gets wetness >= 0.6 and the texture wet or very_wet.
C15_ThreeSuitedIsWet ==
    (/\ ~IsNone(texture_seen)
     /\ req.stage # "PreFlop"
     /\ Len(req.board) \in BoardSizes
     /\ SuitThrice(req.board))
        => /\ QGe(Val(texture_seen).wetness, Q(6, 10))
           /\ Val(texture_seen).texture \in {"wet", "very_wet"}

\* C15 witness: a river with three hearts and no straight texture, at
\* wetness 0.6 exactly
C15_Witness ==
    /\ pc = "texture"
    /\ Len(req.board) = 5
    /\ SuitThrice(req.board)
    /\ Val(texture_seen).wetness = Q(6, 10)
    /\ Val(texture_seen).texture = "wet"

\* post-flop, decided by postflop_strategy
PostflopDecided == Chosen /\ req.stage # "PreFlop"

\* the bluff-frequency multiplier: 0.3 with more than two live opponents,
\* 0.6 with exactly two, 1 heads-up
BluffMultiplier(r) ==
    IF ActiveOpponents(r) > 2 THEN Q(3, 10)
    ELSE IF ActiveOpponents(r) > 1 THEN Q(6, 10)
    ELSE QInt(1)

\* at least three passive actions on the street, fold rate above 0.3 and
\* SPR above 3
PureBluffSpot(r) ==
    /\ analyze_action_patterns(r).passive_actions >= 3
    /\ QGt(analyze_action_patterns(r).fold_rate, Q(3, 10))
    /\ QGt(calculate_spr(r), QInt(3))

\* the bluff-eligibility predicate, on the equity the strategy is given
BluffEligible ==
    /\ QLt(adjusted_equity, Q(4, 10))
    /\ ~IsNone(bluff_draw)
    /\ QLt(Val(bluff_draw),
           QMul(get_personality_adjustments(
                    OrDefault(req.bot.personality, "Balanced")).bluff_frequency,
                BluffMultiplier(req)))
    /\ \/ PureBluffSpot(req)
       \/ /\ QGt(analyze_board_texture(req).wetness, Q(5, 10))
          /\ QGt(adjusted_equity, Q(2, 10))

\* C16: post-flop the hand is bluff-eligible exactly when equity < 0.4, the
\* draw is below bluffFrequency times the multiway multiplier, and the
\* pure-bluff or the semi-bluff condition holds.
C16_BluffEligibility == PostflopDecided => (should_bluff <=> BluffEligible)

\* pre-flop facing a bet, decided by preflop_strategy without a 3-bet
FacingNoThreeBet ==
    /\ Chosen /\ req.stage = "PreFlop"
    /\ strat_to_call > 0
    /\ result.action # "Raise"

\* potOdds = toCall / (pot + toCall)
PotOdds(r) ==
    IF r.pot + PrescribedToCall(r) > 0
    THEN Q(PrescribedToCall(r), r.pot + PrescribedToCall(r))
    ELSE QInt(0)

\* the call conditions of the fallback over the margin m
CallOver(m) ==
    \/ QGt(adjusted_equity, QAdd(QAdd(PotOdds(req), m), Q(15, 100)))
    \/ /\ QGt(adjusted_equity, QAdd(PotOdds(req), m))
       /\ 10 * PrescribedToCall(req) < req.pot

PersonaOffset(r) ==
    get_personality_adjustments(
        OrDefault(r.bot.personality, "Balanced")).equity_threshold

\* C17: pre-flop facing a bet with no 3-bet taken, the decision is Call when
\* equity > potOdds + requiredEquity + 0.15, or when equity > potOdds +
\* requiredEquity and toCall < 10% of the pot, and Fold otherwise.
C17_FallbackOnRequiredEquity ==
    FacingNoThreeBet =>
        /\ result.action \in {"Call", "Fold"}
        /\ result.action = "Call" <=> CallOver(RequiredEquity(req))

\* C17 amended: the same fallback over potOdds + the persona's equity
\* offset alone.
C17_FallbackOnPersonaOffset ==
    FacingNoThreeBet =>
        /\ result.action \in {"Call", "Fold"}
        /\ result.action = "Call" <=> CallOver(PersonaOffset(req))

\* C17 witness: a call the persona offset allows and requiredEquity would
\* not
C17_Witness ==
    /\ FacingNoThreeBet
    /\ CallOver(PersonaOffset(req))
    /\ ~CallOver(RequiredEquity(req))
    /\ result.action = "Call"

\* the distinct rank values on board b
DistinctRanks(b) == {rank_map(b[i].rank) : i \in DOMAIN b}

\* the longest run of consecutive ranks among the values S
LongestRun(S) ==
    CHOOSE k \in 1..Cardinality(S) :
        /\ \E v \in S : \A j \in 0..(k - 1) : v + j \in S
        /\ \A m \in (k + 1)..Cardinality(S) :
              ~ \E v \in S : \A j \in 0..(m - 1) : v + j \in S

\* +0.4 for three or more consecutive ranks, +0.2 for exactly two
StraightComponent(b) ==
    IF LongestRun(DistinctRanks(b)) >= 3 THEN Q(4, 10)
    ELSE IF LongestRun(DistinctRanks(b)) = 2 THEN Q(2, 10)
    ELSE QInt(0)

\* one-rank gaps between neighbouring distinct ranks
OneRankGaps(b) ==
    Cardinality({v \in DistinctRanks(b) :
                    v + 2 \in DistinctRanks(b) /\ v + 1 \notin DistinctRanks(b)})

\* +0.3 for two of a suit at most, +0.6 for three
FlushComponent(b) ==
    IF \E i \in DOMAIN b : SuitCount(b, b[i].suit) > 3 THEN QInt(0)
    ELSE IF SuitThrice(b) THEN Q(6, 10)
    ELSE IF \E i \in DOMAIN b : SuitCount(b, b[i].suit) = 2 THEN Q(3, 10)
    ELSE QInt(0)

\* C18: the wetness of a post-flop board is its flush component plus 0.4
\* for three or more consecutive ranks (0.2 for exactly two) plus 0.1 per
\* one-rank gap between sorted distinct ranks, a paired rank inside the run
\* included.
C18_StraightComponent ==
    (~IsNone(texture_seen) /\ req.stage # "PreFlop" /\ req.board # <<>>)
        => Val(texture_seen).wetness =
              QAdd(QAdd(FlushComponent(req.board),
                        StraightComponent(req.board)),
                   Q(OneRankGaps(req.board), 10))

\* the post-flop engine raised on an eligible pure bluff
PureBluffRaise ==
    /\ PostflopDecided
    /\ result.rationale \in {"medium SPR pure_bluff", "high SPR bluff dry board"}
    /\ bluff_type = Some("pure_bluff")

\* int(pot x pct), clamped between max(minRaise, bigBlind) and
\* min(maxRaise, chips)
SizedAt(r, pct) ==
    Max(Max(r.context.minRaise, r.bigBlind),
        Min(Trunc(QMul(QInt(r.pot), pct)),
            Min(r.context.maxRaise, r.bot.chips)))

\* C19: a raise on an eligible pure bluff is sized as a bluff:
\* int(pot x the persona's bluff bet size), clamped to the legal bounds.
C19_PureBluffSizedAsBluff ==
    PureBluffRaise =>
        /\ result.action = "Raise"
        /\ Val(result.raiseTo) =
              SizedAt(req, get_personality_adjustments(
                               OrDefault(req.bot.personality, "Balanced")
                           ).bluff_bet_size)

\* C20: choose_action never answers Raise when the request's canRaise is
\* false.
C20_NoRaiseWhenForbidden ==
    (Chosen /\ ~req.context.canRaise) => result.action # "Raise"

\* sequence s is the beginning of sequence t
IsPrefix(s, t) == Len(s) <= Len(t) /\ SubSeq(t, 1, Len(s)) = s

\* every hand of the file keeps its entry and its decisions across the step
DecisionsKept ==
    \A h \in DOMAIN log_file :
        /\ h \in DOMAIN log_file'
        /\ IsPrefix(log_file[h].decisions, log_file'[h].decisions)

\* C21: within one day's file a decision recorded for a hand stays recorded
\* after any later log_round_start, log_round_end, log_decision or
\* log_hand_complete call, for the same or another hand: each hand's
\* decisions list only grows.
C21_DecisionsOnlyGrow == [][DecisionsKept]_vars

\* the step is a log_round_end call for hand h, which had an entry
RoundEndOn(h) ==
    /\ h \in DOMAIN log_file
    /\ last_call'.method = "log_round_end"
    /\ last_call'.hand_id = h

\* the call returned and the hand's rounds list is one record longer
RoundAppended(h) ==
    /\ ~last_call'.raised
    /\ ~IsNone(log_file[h].rounds)
    /\ \E r \in FinalResults :
         log_file'[h].rounds = Some(Append(Val(log_file[h].rounds), r))

\* C22: log_round_end for a hand that has an entry in the day's file appends
\* one round record to the hand and returns without raising, whether
\* log_round_start or an earlier log_decision created the entry.
C22_RoundEndAppends ==
    [][\A h \in CallerHands : RoundEndOn(h) => RoundAppended(h)]_vars

=============================================================================
